---- MODULE Spec2Model ----
(***************************************************************************)
(* Request/response over a broker log: the RequestSender (pending-request *)
(* table, completion sinks, timeout race) and the StreamHandler (bounded  *)
(* concurrent dispatch, reply publication) of src/kafka.                  *)
(***************************************************************************)
EXTENDS Integers, Sequences, FiniteSets, TLC

\* ---------------------------------------------------------------- bounds
NumCalls == 2
MaxMsgs == 3
MaxLimit == 2
MaxRequests == 2
MaxRegisters == 3

\* ------------------------------------------------------------- constants
DEFAULT_TIMEOUT_SECS == 600

\* ------------------------------------------------------- value universes
Calls == 1..NumCalls
Tids == {"t1", "t2"}
NoTid == "-"
\* Option: None, or Some(x)
None == [none |-> TRUE]
Some(x) == [some |-> x]
NoMsg == None

\* KafkaConfig.cluster_id
cluster_id == "cluster"

response_topic == "cluster.9a2ece8f"

\* RequestSender values living in processes that share one broker
Senders == {"s1", "s2"}
ClusterIds == {cluster_id, "other"}
RequestResponseUri == "REQUEST_RESPONSE"

\* ResponseDestination values: live, topic empty, uri empty
ResponseDestination ==
    {[topic |-> response_topic, uri |-> RequestResponseUri],
     [topic |-> "", uri |-> RequestResponseUri],
     [topic |-> response_topic, uri |-> ""]}

\* mutant: only the topic is looked at
dest_should_response_TopicOnly(dest) == dest.topic # ""

\* ResponseDestination::should_response
dest_should_response(dest) == dest.topic # "" /\ dest.uri # ""

\* mutant: any destination that is present counts as live
should_response_AnyDestination(msg) == msg.response_destination # None

\* ParsedMessage::should_response
should_response(msg) ==
    IF msg.response_destination = None THEN FALSE
    ELSE dest_should_response(msg.response_destination)

\* utils::extract_payload
extract_payload(m) == IF m.payload \in {"none", "invalid_utf8"} THEN None ELSE m

\* ParsedMessage::parse_from_string
parse_from_string(p) == IF p.payload = "garbage" THEN None ELSE p.env

\* ------------------------------------------------------------ JSON values
JNull == [json |-> "null"]
JStr(s) == [json |-> "string", v |-> s]
JObj(fields) == [json |-> "object", v |-> fields]

\* Option<String> and Option<ResponseDestination> under Serialize
ser_opt_string(o) == IF o = None THEN JNull ELSE JStr(o.some)
ser_destination(d) == JObj([topic |-> JStr(d.topic), uri |-> JStr(d.uri)])
ser_opt_destination(o) == IF o = None THEN JNull ELSE ser_destination(o)

\* mutant: the struct is written with its Rust field names
to_string_SnakeCase(e) ==
    JObj([message_type |-> JStr(e.message_type),
          source_id |-> ser_opt_string(e.source_id),
          transaction_id |-> JStr(e.transaction_id),
          message_id |-> JStr(e.message_id),
          uri |-> JStr(e.uri),
          response_destination |-> ser_opt_destination(e.response_destination),
          data |-> e.data])

\* serde_json::to_string of a ParsedMessage: derive(Serialize) with
\* rename_all = "camelCase", MessageType written by its renamed variant
to_string(e) ==
    JObj([messageType |-> JStr(e.message_type),
          sourceId |-> ser_opt_string(e.source_id),
          transactionId |-> JStr(e.transaction_id),
          messageId |-> JStr(e.message_id),
          uri |-> JStr(e.uri),
          responseDestination |-> ser_opt_destination(e.response_destination),
          data |-> e.data])

\* the variant names MessageType accepts
MessageTypeNames == {"REQUEST", "RESPONSE", "MESSAGE"}

IsJStr(j) == j.json = "string"

\* Option fields under Deserialize: a missing key and null are both None
de_opt_string(f, k) ==
    IF k \notin DOMAIN f \/ f[k] = JNull THEN None ELSE Some(f[k].v)
de_destination(j) == [topic |-> j.v.topic.v, uri |-> j.v.uri.v]
de_opt_destination(f, k) ==
    IF k \notin DOMAIN f \/ f[k] = JNull THEN None ELSE de_destination(f[k])

IsJDestination(j) ==
    /\ j.json = "object"
    /\ {"topic", "uri"} \subseteq DOMAIN j.v
    /\ IsJStr(j.v.topic) /\ IsJStr(j.v.uri)

\* what derive(Deserialize) of ParsedMessage accepts
Deserializable(j) ==
    /\ j.json = "object"
    /\ {"messageType", "transactionId", "messageId", "uri", "data"} \subseteq DOMAIN j.v
    /\ IsJStr(j.v.messageType) /\ j.v.messageType.v \in MessageTypeNames
    /\ IsJStr(j.v.transactionId) /\ IsJStr(j.v.messageId) /\ IsJStr(j.v.uri)
    /\ "sourceId" \in DOMAIN j.v => (j.v.sourceId = JNull \/ IsJStr(j.v.sourceId))
    /\ "responseDestination" \in DOMAIN j.v =>
           (j.v.responseDestination = JNull \/ IsJDestination(j.v.responseDestination))

\* serde_json::from_str::<ParsedMessage>, as parse_from_string calls it
from_str(j) ==
    IF ~Deserializable(j) THEN None
    ELSE Some([message_type |-> j.v.messageType.v,
               source_id |-> de_opt_string(j.v, "sourceId"),
               transaction_id |-> j.v.transactionId.v,
               message_id |-> j.v.messageId.v,
               uri |-> j.v.uri.v,
               response_destination |-> de_opt_destination(j.v, "responseDestination"),
               data |-> j.v.data])

\* ------------------------------------------------------------- KafkaError
KafkaErrorVariants ==
    {"InternalServerError", "UriNotFound", "SerializationError",
     "ConnectionError", "TimeoutError", "ConfigurationError"}
KafkaErrors == [variant : KafkaErrorVariants, arg : {"", "boom"}]

\* mutant: a connection failure is reported as an internal error
kafka_error_code_ConnectionIsInternal(e) ==
    CASE e.variant = "UriNotFound" -> "URI_NOT_FOUND"
      [] e.variant = "SerializationError" -> "VALUE_INVALID"
      [] e.variant = "TimeoutError" -> "TIMEOUT_ERROR"
      [] e.variant = "ConfigurationError" -> "INVALID_PARAMETER"
      [] OTHER -> "INTERNAL_SERVER_ERROR"

\* the error_codes constant each arm of KafkaError::to_response uses
kafka_error_code(e) ==
    CASE e.variant = "InternalServerError" -> "INTERNAL_SERVER_ERROR"
      [] e.variant = "UriNotFound" -> "URI_NOT_FOUND"
      [] e.variant = "SerializationError" -> "VALUE_INVALID"
      [] e.variant = "ConnectionError" -> "TIMEOUT_ERROR"
      [] e.variant = "TimeoutError" -> "TIMEOUT_ERROR"
      [] e.variant = "ConfigurationError" -> "INVALID_PARAMETER"

\* Display of KafkaError (the #[error] attributes)
kafka_error_display(e) ==
    CASE e.variant = "InternalServerError" -> "Internal Server Error: " \o e.arg
      [] e.variant = "UriNotFound" -> "Uri not found: " \o e.arg
      [] e.variant = "SerializationError" -> "Serialization Error: " \o e.arg
      [] e.variant = "ConnectionError" -> "Connection Error: " \o e.arg
      [] e.variant = "TimeoutError" -> "Timeout Error: " \o e.arg
      [] e.variant = "ConfigurationError" -> "Configuration Error: " \o e.arg

\* KafkaError::to_response
kafka_to_response(e) ==
    [status |-> Some([code |-> kafka_error_code(e),
                      message |-> kafka_error_display(e), data |-> None]),
     data |-> None]

\* MessageLatency::is_expired
is_expired(latency, expire_time) == latency > 0 /\ latency > expire_time

\* ---------------------------------------------------- RequestSender state
VARIABLES
    pending_requests,   \* transaction id -> call whose sink the entry holds
    call_pc,            \* position of each send_request_async call
    call_tid,           \* transaction id of each call
    tx,                 \* sender half of each call's oneshot channel
    chan,               \* value stored in each call's oneshot channel
    timer_elapsed,      \* whether the call's sleep future is ready
    outcome,            \* what the call returned
    service_topic,      \* log of request envelopes the producer has published
    reply_log,          \* how handle_message disposed of the last reply
    timeout_secs,       \* RequestSender.timeout_secs, the constructor's argument
    call_timeout,       \* params.timeout_secs of each call
    sleep_secs          \* seconds given to the sleep future of each call's select

senderVars == <<pending_requests, call_pc, call_tid, tx, chan, timer_elapsed,
                outcome, service_topic, reply_log, timeout_secs, call_timeout,
                sleep_secs>>

\* ---------------------------------------------------- StreamHandler state
VARIABLES
    routes,             \* uris that have a registered handler
    concurrency_limit,  \* the limit given to buffer_unordered
    next_msg,           \* messages pulled from the consumer stream so far
    tasks,              \* the process_message future of each pulled message
    yielded             \* the completed future last handed to for_each

handlerVars == <<routes, concurrency_limit, next_msg, tasks, yielded>>

\* ------------------------------------------------------------ broker state
VARIABLES
    reply_topic,        \* log of the reply topic: what the server's producer delivered
    reply_offset        \* replies the sender's consumer has taken from the log

brokerVars == <<reply_topic, reply_offset>>

\* ------------------------------------------------- consumer start-up state
VARIABLES
    start_pc,           \* position of the caller of RequestSender::start
    consumer_loop       \* the for_each loop of KafkaConsumer::start

startVars == <<start_pc, consumer_loop>>

\* --------------------------------- several RequestSenders on one broker
VARIABLES
    instances,          \* the RequestSender values constructed so far
    inst_pending,       \* transaction ids each of them is waiting for
    reply_net,          \* replies on the broker, not yet consumed
    consumed_log        \* which instance consumed which reply

instVars == <<instances, inst_pending, reply_net, consumed_log>>

\* ------------------------------------------- functions applied to a value
VARIABLES
    codec,              \* an envelope, its JSON encoding, the decoded value
    kerr,               \* a KafkaError and the Response made of it
    consumer_new        \* a consumer configuration and its subscription

pureVars == <<codec, kerr, consumer_new>>

\* ---------------------------------------------------------- RouteRegistry
VARIABLES
    route_registry,     \* the HashMap behind RouteRegistry::routes
    register_log,       \* the register calls made on it, in order
    macro_form          \* how a routes! invocation was matched, if any

registryVars == <<route_registry, register_log, macro_form>>

\* ------------------------------------ the consumer loop, future by future
VARIABLES
    ready_queue,        \* futures pushed to FuturesUnordered, not yet polled
    started,            \* stream indices in the order their handlers began
    completed,          \* futures in the order they returned, with their results
    loop_alive,         \* the future returned by start has not been dropped
    cancelled           \* handler invocations dropped while in flight

orderVars == <<ready_queue, started, completed, loop_alive, cancelled>>

\* ------------------------------------ the lock of the pending table
VARIABLES
    lock_holder,        \* the task holding the write guard of pending_requests
    lock_waiters,       \* tasks suspended in write().await, first come first
    thread_pc           \* where each task stands in its function

lockVars == <<lock_holder, lock_waiters, thread_pc>>

extraVars == <<orderVars, lockVars>>

\* state of the library parts outside the request/response path
libVars == <<startVars, instVars, pureVars, registryVars, extraVars>>

vars == <<senderVars, handlerVars, brokerVars, libVars>>

NoOutcome == [kind |-> "none", env |-> NoMsg]

\* replies a broker can deliver on the reply topic
ReplyTids == Tids \cup {"t9"}
ReplyEnvelope == [message_type : {"RESPONSE"}, transaction_id : ReplyTids, data : {"d1"}]
\* latencies in ms: timestamp unavailable, a little over 600 ms, over 600 s
Latencies == {0, 601, 600001}
ReplyMessage ==
    [payload : {"envelope"}, latency : Latencies, env : ReplyEnvelope]
    \cup [payload : {"none", "invalid_utf8", "garbage"}, latency : {0}, env : {NoMsg}]

\* the receiver half lives from channel creation to the end of the select
RxLive(c) == call_pc[c] \in {"inserted", "awaiting"}

\* the receiver future is ready: a value was sent or the sender was dropped
RxReady(c) == tx[c] \in {"sent", "dropped"}

\* HashMap::insert
HashMapInsert(map, k, v) == [x \in DOMAIN map \cup {k} |-> IF x = k THEN v ELSE map[x]]

\* HashMap::remove
HashMapRemove(map, k) == [x \in DOMAIN map \ {k} |-> map[x]]

\* mutant: a displaced PendingRequest lives on, its sender half open
DropEntry_KeepsSink(txs, t) == txs

\* HashMap::insert / HashMap::remove drop the PendingRequest they displace,
\* and with it the sender half of its channel
DropEntry(txs, t) ==
    IF t \notin DOMAIN pending_requests THEN txs
    ELSE [txs EXCEPT ![pending_requests[t]] = "dropped"]

\* HashMap::new
HashMapNew == [x \in {} |-> None]

\* timeout_secs arguments of with_concurrency_limit, params.timeout_secs of a call
TimeoutSecsArgs == {30, DEFAULT_TIMEOUT_SECS}
CallTimeouts == {None, Some(5)}

\* a RequestSender just built: empty table, no call made yet
SenderConstructed ==
    /\ pending_requests = HashMapNew
    /\ reply_log = "none"
    /\ call_pc = [c \in Calls |-> "idle"]
    /\ call_tid = [c \in Calls |-> NoTid]
    /\ tx = [c \in Calls |-> "none"]
    /\ chan = [c \in Calls |-> NoMsg]
    /\ timer_elapsed = [c \in Calls |-> FALSE]
    /\ outcome = [c \in Calls |-> NoOutcome]
    /\ service_topic = <<>>
    /\ sleep_secs = [c \in Calls |-> None]

\* RequestSender::new, its calls made without a timeout of their own
SenderInit ==
    /\ SenderConstructed
    /\ timeout_secs = DEFAULT_TIMEOUT_SECS
    /\ call_timeout = [c \in Calls |-> None]

\* mutant: the request is published first, the entry inserted afterwards
InsertPending_AfterPublish(c, t) ==
    /\ call_pc[c] = "idle"
    /\ call_pc' = [call_pc EXCEPT ![c] = "inserted"]
    /\ call_tid' = [call_tid EXCEPT ![c] = t]
    /\ service_topic' = Append(service_topic, [message_type |-> "REQUEST", transaction_id |-> t])
    /\ UNCHANGED <<pending_requests, tx, chan, timer_elapsed, outcome, reply_log,
                   timeout_secs, call_timeout, sleep_secs, handlerVars, brokerVars, libVars>>

\* send_request_async, lines 348-358: mint or take the transaction id, create
\* the channel, insert the pending entry
InsertPending(c, t) ==
    /\ call_pc[c] = "idle"
    /\ call_pc' = [call_pc EXCEPT ![c] = "inserted"]
    /\ call_tid' = [call_tid EXCEPT ![c] = t]
    /\ tx' = [DropEntry(tx, t) EXCEPT ![c] = "live"]
    /\ pending_requests' = HashMapInsert(pending_requests, t, c)
    /\ UNCHANGED <<chan, timer_elapsed, outcome, service_topic, reply_log, timeout_secs,
                   call_timeout, sleep_secs, handlerVars, brokerVars, libVars>>

\* the REQUEST envelope built by send_request_base
RequestEnvelope(t) ==
    [message_type |-> "REQUEST", source_id |-> Some(cluster_id), message_id |-> "m1",
     transaction_id |-> t, uri |-> "/a",
     response_destination |-> [topic |-> response_topic, uri |-> RequestResponseUri],
     data |-> "q"]

\* Option::unwrap_or
unwrap_or(opt, default) == IF opt = None THEN default ELSE opt.some

\* a u64 is written as its four 16-bit limbs, most significant first
LimbBase == 2^16

\* `as u64` of an i64: the same 64 bits read as unsigned (x mod 2^64)
as_u64(x) ==
    LET q1 == x \div LimbBase
        q2 == q1 \div LimbBase
        q3 == q2 \div LimbBase
    IN <<q3 % LimbBase, q2 % LimbBase, q1 % LimbBase, x % LimbBase>>

\* a < b for two u64
u64_lt(a, b) ==
    \E k \in 1..4 : a[k] < b[k] /\ \A j \in 1..(k - 1) : a[j] = b[j]

\* Duration::from_secs: a Duration is its whole seconds
from_secs(secs) == secs

\* Duration::ZERO
DurationZero == from_secs(as_u64(0))

\* line 377: the duration the select's sleep future is given
sleep_duration(params_timeout_secs) ==
    from_secs(as_u64(unwrap_or(params_timeout_secs, DEFAULT_TIMEOUT_SECS)))

\* mutant: the select polls its branches only after a wake-up, a value
\* already in the channel is not seen by the first poll
first_poll_NothingReady(rx_ready, sleep_ready) == {"awaiting"}

\* select!, first poll, made as soon as the producer send has returned: a
\* branch that is ready is taken, either of two ready ones; with none ready
\* the call waits
first_poll(rx_ready, sleep_ready) ==
    IF rx_ready /\ sleep_ready THEN {"rx_arm", "timeout_arm"}
    ELSE IF rx_ready THEN {"rx_arm"}
    ELSE IF sleep_ready THEN {"timeout_arm"}
    ELSE {"awaiting"}

\* send_request_async, lines 360-377, producer send succeeded: the select
\* starts with the receiver and a new sleep future and polls them
PublishOk(c) ==
    /\ call_pc[c] = "inserted"
    /\ service_topic' = Append(service_topic, RequestEnvelope(call_tid[c]))
    /\ LET duration == sleep_duration(call_timeout[c])
       IN /\ sleep_secs' = [sleep_secs EXCEPT ![c] = Some(duration)]
          /\ timer_elapsed' = [timer_elapsed EXCEPT ![c] = (duration = DurationZero)]
          /\ \E pc \in first_poll(RxReady(c), duration = DurationZero) :
                call_pc' = [call_pc EXCEPT ![c] = pc]
    /\ UNCHANGED <<pending_requests, call_tid, tx, chan, outcome, reply_log,
                   timeout_secs, call_timeout, handlerVars, brokerVars, libVars>>

\* mutant: the producer's error is put aside and the call goes on to its select
PublishFail_AwaitsReply(c) ==
    /\ call_pc[c] = "inserted"
    /\ call_pc' = [call_pc EXCEPT ![c] = "awaiting"]
    /\ sleep_secs' = [sleep_secs EXCEPT ![c] = Some(sleep_duration(call_timeout[c]))]
    /\ UNCHANGED <<pending_requests, call_tid, tx, chan, timer_elapsed, outcome,
                   service_topic, reply_log, timeout_secs, call_timeout, handlerVars,
                   brokerVars, libVars>>

\* send_request_async, lines 360-367, producer send failed: `?` returns
PublishFail(c) ==
    /\ call_pc[c] = "inserted"
    /\ call_pc' = [call_pc EXCEPT ![c] = "returned"]
    /\ outcome' = [outcome EXCEPT ![c] = [kind |-> "InternalServerError", env |-> NoMsg]]
    /\ UNCHANGED <<pending_requests, call_tid, tx, chan, timer_elapsed, service_topic,
                   reply_log, timeout_secs, call_timeout, sleep_secs, handlerVars,
                   brokerVars, libVars>>

\* the sleep future of the select becomes ready
TimerElapse(c) ==
    /\ call_pc[c] = "awaiting"
    /\ ~timer_elapsed[c]
    /\ timer_elapsed' = [timer_elapsed EXCEPT ![c] = TRUE]
    /\ UNCHANGED <<pending_requests, call_pc, call_tid, tx, chan, outcome, service_topic,
                   reply_log, timeout_secs, call_timeout, sleep_secs, handlerVars,
                   brokerVars, libVars>>

\* select!, branch `res = rx`
SelectRx(c) ==
    /\ call_pc[c] = "awaiting"
    /\ RxReady(c)
    /\ call_pc' = [call_pc EXCEPT ![c] = "rx_arm"]
    /\ UNCHANGED <<pending_requests, call_tid, tx, chan, timer_elapsed, outcome,
                   service_topic, reply_log, timeout_secs, call_timeout, sleep_secs,
                   handlerVars, brokerVars, libVars>>

\* select!, branch `_ = sleep(..)`
SelectTimeout(c) ==
    /\ call_pc[c] = "awaiting"
    /\ timer_elapsed[c]
    /\ call_pc' = [call_pc EXCEPT ![c] = "timeout_arm"]
    /\ UNCHANGED <<pending_requests, call_tid, tx, chan, timer_elapsed, outcome,
                   service_topic, reply_log, timeout_secs, call_timeout, sleep_secs,
                   handlerVars, brokerVars, libVars>>

\* mutant: a closed channel is taken for a response
RxResult_ClosedIsResponse(c) == [kind |-> "Response", env |-> chan[c]]

\* result of the rx branch: Ok(response) or Err(channel closed)
RxResult(c) ==
    IF chan[c] # NoMsg THEN [kind |-> "Response", env |-> chan[c]]
    ELSE [kind |-> "InternalServerError", env |-> NoMsg]

\* body of the rx branch, lines 371-375
RxArmReturn(c) ==
    /\ call_pc[c] = "rx_arm"
    /\ pending_requests' = HashMapRemove(pending_requests, call_tid[c])
    /\ tx' = DropEntry(tx, call_tid[c])
    /\ outcome' = [outcome EXCEPT ![c] = RxResult(c)]
    /\ call_pc' = [call_pc EXCEPT ![c] = "returned"]
    /\ UNCHANGED <<call_tid, chan, timer_elapsed, service_topic, reply_log, timeout_secs,
                   call_timeout, sleep_secs, handlerVars, brokerVars, libVars>>

\* mutant: the timeout branch arms a new timer and waits again
TimeoutArmReturn_WaitsAgain(c) ==
    /\ call_pc[c] = "timeout_arm"
    /\ call_pc' = [call_pc EXCEPT ![c] = "awaiting"]
    /\ timer_elapsed' = [timer_elapsed EXCEPT ![c] = FALSE]
    /\ UNCHANGED <<pending_requests, call_tid, tx, chan, outcome, service_topic,
                   reply_log, timeout_secs, call_timeout, sleep_secs, handlerVars,
                   brokerVars, libVars>>

\* body of the timeout branch, lines 378-380
TimeoutArmReturn(c) ==
    /\ call_pc[c] = "timeout_arm"
    /\ pending_requests' = HashMapRemove(pending_requests, call_tid[c])
    /\ tx' = DropEntry(tx, call_tid[c])
    /\ outcome' = [outcome EXCEPT ![c] = [kind |-> "TimeoutError", env |-> NoMsg]]
    /\ call_pc' = [call_pc EXCEPT ![c] = "returned"]
    /\ UNCHANGED <<call_tid, chan, timer_elapsed, service_topic, reply_log, timeout_secs,
                   call_timeout, sleep_secs, handlerVars, brokerVars, libVars>>

\* PendingRequest::resolve: oneshot send, its failure ignored
resolve(o, value) ==
    /\ tx' = [tx EXCEPT ![o] = "sent"]
    /\ chan' = IF RxLive(o) THEN [chan EXCEPT ![o] = value] ELSE chan

\* mutant: the reply completes whichever entry the table yields first
reply_found_AnyEntry(parsed) ==
    LET k == CHOOSE x \in DOMAIN pending_requests : TRUE IN
    /\ pending_requests' = HashMapRemove(pending_requests, k)
    /\ resolve(pending_requests[k], parsed)
    /\ reply_log' = "resolved"

\* mutant: the sink is resolved through a reference, its entry left in the table
reply_found_KeepsEntry(parsed) ==
    /\ UNCHANGED pending_requests
    /\ resolve(pending_requests[parsed.transaction_id], parsed)
    /\ reply_log' = "resolved"

\* handle_message, lines 271-281: the entry is removed and its sink resolved
reply_found(parsed) ==
    /\ pending_requests' = HashMapRemove(pending_requests, parsed.transaction_id)
    /\ resolve(pending_requests[parsed.transaction_id], parsed)
    /\ reply_log' = "resolved"

\* mutant: a reply nobody waits for clears the table
reply_not_found_ClearsTable ==
    /\ reply_log' = "not found"
    /\ pending_requests' = HashMapNew
    /\ tx' = [c \in Calls |-> IF tx[c] = "live" THEN "dropped" ELSE tx[c]]
    /\ UNCHANGED chan

\* handle_message, lines 282-288: no entry for the transaction id
reply_not_found ==
    /\ reply_log' = "not found"
    /\ UNCHANGED <<pending_requests, tx, chan>>

\* RequestSender::handle_message
handle_message(m) ==
    /\ UNCHANGED <<call_pc, call_tid, timer_elapsed, outcome, service_topic, timeout_secs,
                   call_timeout, sleep_secs, handlerVars>>
    /\ IF extract_payload(m) = None THEN
           /\ reply_log' = "no payload"
           /\ UNCHANGED <<pending_requests, tx, chan>>
       ELSE IF is_expired(m.latency, timeout_secs) THEN
           /\ reply_log' = "expired"
           /\ UNCHANGED <<pending_requests, tx, chan>>
       ELSE IF parse_from_string(m) = None THEN
           /\ reply_log' = "parse failed"
           /\ UNCHANGED <<pending_requests, tx, chan>>
       ELSE IF parse_from_string(m).transaction_id \in DOMAIN pending_requests THEN
           reply_found(parse_from_string(m))
       ELSE
           reply_not_found

SenderNext ==
    \/ \E c \in Calls, t \in Tids : InsertPending(c, t)
    \/ \E c \in Calls : PublishOk(c)
    \/ \E c \in Calls : PublishFail(c)
    \/ \E c \in Calls : TimerElapse(c)
    \/ \E c \in Calls : SelectRx(c)
    \/ \E c \in Calls : SelectTimeout(c)
    \/ \E c \in Calls : RxArmReturn(c)
    \/ \E c \in Calls : TimeoutArmReturn(c)
    \/ \E m \in ReplyMessage : handle_message(m) /\ UNCHANGED <<brokerVars, libVars>>

\* ------------------------------------------------------------ StreamHandler
TaskIds == 1..MaxMsgs
Uris == {"/a", "/x"}
\* uris the application has a handler for
HandlerUris == {"/a"}
MessageTypes == {"REQUEST"}
MessageIds == {"m1"}

\* ParsedMessage as decoded from a payload on the service topic
Envelope ==
    [message_type : MessageTypes, source_id : {None}, transaction_id : Tids,
     message_id : MessageIds, uri : Uris,
     response_destination : ResponseDestination \cup {None}, data : {"q"}]
    \cup [message_type : MessageTypes, source_id : {None}, transaction_id : {"t2"},
          message_id : {"m2"}, uri : Uris,
          response_destination : {[topic |-> "replies", uri |-> "/cb"]}, data : {"q"}]

\* a broker message: no payload, a payload that is not UTF-8, a payload that
\* does not decode, or an encoded envelope
ServiceMessage ==
    [payload : {"envelope"}, env : Envelope]
    \cup [payload : {"none", "invalid_utf8", "garbage"}, env : {NoMsg}]

\* what a handler can come back with
HandlerErrors == {[variant |-> "InternalServerError", arg |-> "boom"]}
HandlerOutcomes ==
    {[kind |-> "Response", payload |-> "p1"], [kind |-> "Acknowledge"]}
    \cup {[kind |-> "Err", error |-> e] : e \in HandlerErrors}

\* error_codes of Error::to_response
error_code(e) ==
    IF e.variant = "UriNotFound" THEN "URI_NOT_FOUND" ELSE "INTERNAL_SERVER_ERROR"

\* Display of Error
error_display(e) ==
    IF e.variant = "UriNotFound" THEN <<"Uri not found: ", e.arg>>
    ELSE <<"Internal Server Error: ", e.arg>>

\* Error::to_response
to_response(e) ==
    [status |-> [code |-> error_code(e), message |-> error_display(e), data |-> None],
     data |-> None]

\* utils::create_message
create_message(source_id, message_id, transaction_id, topic, uri, data, message_type, response_destination) ==
    [topic |-> topic,
     message |-> [message_type |-> IF message_type = None THEN "MESSAGE" ELSE message_type.some,
                  source_id |-> source_id, message_id |-> message_id,
                  transaction_id |-> transaction_id, uri |-> uri,
                  response_destination |-> response_destination, data |-> data]]

\* the SendMessage built by StreamHandler::send_response
send_response(message_id, transaction_id, topic, uri, data) ==
    create_message(None, message_id, transaction_id, topic, uri, data, Some("RESPONSE"), None)

\* mutant: every reply goes to the sender's reply topic under a new message id
ReplyTo_FixedRoute(parsed, data) ==
    send_response("m1", parsed.transaction_id, response_topic, RequestResponseUri, data)

\* the reply the three handle_* functions hand to send_response
ReplyTo(parsed, data) ==
    send_response(parsed.message_id, parsed.transaction_id,
                  parsed.response_destination.topic, parsed.response_destination.uri, data)

NoTask ==
    [phase |-> "unborn", msg |-> NoMsg, handler_calls |-> 0,
     handler_result |-> [kind |-> "none"],
     reply |-> NoMsg, sends |-> <<>>, result |-> "none"]

\* futures buffer_unordered holds: pulled and not yet completed
InFlight == {i \in TaskIds : tasks[i].phase \in {"handler", "sending"}}

HandlerInit ==
    /\ routes = {}
    /\ concurrency_limit \in 1..MaxLimit
    /\ next_msg = 0
    /\ tasks = [i \in TaskIds |-> NoTask]
    /\ yielded = NoTask

\* a process_message future that has returned
Finished(t, res) == [t EXCEPT !.phase = "done", !.reply = NoMsg, !.result = res]

\* buffer_unordered: a future that has returned leaves the in-progress queue
\* and its output goes to for_each; one still pending stays queued
Polled(i, t) ==
    IF t.phase = "done"
    THEN /\ tasks' = [tasks EXCEPT ![i] = [NoTask EXCEPT !.phase = "done"]]
         /\ yielded' = t
    ELSE /\ tasks' = [tasks EXCEPT ![i] = t]
         /\ UNCHANGED yielded

\* a process_message future that awaits the producer with `reply`, or that
\* has nothing to publish and returns Ok
SendOrFinish(t, parsed, data) ==
    IF should_response(parsed)
    THEN [t EXCEPT !.phase = "sending", !.reply = ReplyTo(parsed, data)]
    ELSE Finished(t, "Ok")

\* mutant: a miss is logged and nothing is sent
handle_not_found_response_Silent(t, parsed) == Finished(t, "Ok")

\* StreamHandler::handle_not_found_response
handle_not_found_response(t, parsed) ==
    SendOrFinish(t, parsed, to_response([variant |-> "UriNotFound", arg |-> parsed.uri]))

\* mutant: a success reply carries an OK status next to the data
handle_response_ok_WithStatus(t, parsed, response) ==
    SendOrFinish(t, parsed,
        [status |-> [code |-> "OK", message |-> <<"ok">>, data |-> None],
         data |-> response])

\* StreamHandler::handle_response_ok
handle_response_ok(t, parsed, response) ==
    SendOrFinish(t, parsed, [data |-> response])

\* mutant: the handler's error is swallowed
handle_response_error_Swallowed(t, parsed, error) == Finished(t, "Ok")

\* StreamHandler::handle_response_error
handle_response_error(t, parsed, error) ==
    SendOrFinish(t, parsed, to_response(error))

\* StreamHandler::register, which start_processing's borrow rules out once
\* the stream is being processed
register(uri) ==
    /\ next_msg = 0
    /\ routes' = routes \cup {uri}
    /\ UNCHANGED <<concurrency_limit, next_msg, tasks, yielded, senderVars, brokerVars, libVars>>

\* StreamHandler::get_handler
get_handler(uri) == uri \in routes

\* mutant: a message that does not decode is handed to a handler all the same
process_message_RoutesUndecodable(m) ==
    [NoTask EXCEPT !.msg = m, !.phase = "handler", !.handler_calls = 1]

\* StreamHandler::process_message up to its first suspension
process_message(m) ==
    LET t == [NoTask EXCEPT !.msg = m] IN
    IF extract_payload(m) = None THEN Finished(t, "Err")
    ELSE IF parse_from_string(m) = None THEN Finished(t, "Err")
    ELSE IF get_handler(parse_from_string(m).uri)
         THEN [t EXCEPT !.phase = "handler", !.handler_calls = 1]
         ELSE handle_not_found_response(t, parse_from_string(m))

\* mutant: an Err handed to for_each ends the stream
for_each_StopsOnErr(res) == res # "Err"

\* the for_each closure of start_processing: an Err is logged, and the stream
\* is polled again whatever the result was
for_each(res) == res \in {"none", "Ok", "Err"}

\* mutant: the limit is compared off by one
has_free_slot_OffByOne == Cardinality(InFlight) <= concurrency_limit

\* mutant: the first concurrency_limit messages are pulled and no more
has_free_slot_NeverRefilled == next_msg < concurrency_limit

\* buffer_unordered(concurrency_limit): room for one more future in progress
has_free_slot == Cardinality(InFlight) < concurrency_limit

\* start_processing: buffer_unordered pulls the next message while fewer than
\* concurrency_limit futures are in progress
Dispatch(m) ==
    /\ next_msg < MaxMsgs
    /\ for_each(yielded.result)
    /\ has_free_slot
    /\ next_msg' = next_msg + 1
    /\ Polled(next_msg + 1, process_message(m))
    /\ UNCHANGED <<routes, concurrency_limit, senderVars, brokerVars, libVars>>

\* mutant: Acknowledge is answered like an empty Response
match_handler_result_AckReplies(t, parsed, r) ==
    CASE r.kind = "Err" -> handle_response_error(t, parsed, r.error)
      [] r.kind = "Response" -> handle_response_ok(t, parsed, r.payload)
      [] r.kind = "Acknowledge" -> handle_response_ok(t, parsed, None)

\* process_message, lines 710-734: the match on what the handler returned
match_handler_result(t, parsed, r) ==
    CASE r.kind = "Err" -> handle_response_error(t, parsed, r.error)
      [] r.kind = "Response" -> handle_response_ok(t, parsed, r.payload)
      [] r.kind = "Acknowledge" -> Finished(t, "Ok")

\* process_message resumes when the handler future completes with r
HandlerReturn(i, r) ==
    /\ tasks[i].phase = "handler"
    /\ Polled(i, match_handler_result([tasks[i] EXCEPT !.handler_result = r],
                                      parse_from_string(tasks[i].msg), r))
    /\ UNCHANGED <<routes, concurrency_limit, next_msg, senderVars, brokerVars, libVars>>

\* send_response, lines 560-584: the produce future completes
SendComplete(i, ok) ==
    /\ tasks[i].phase = "sending"
    /\ Polled(i, Finished([tasks[i] EXCEPT
                               !.sends = Append(@, [msg |-> tasks[i].reply, ok |-> ok])],
                           IF ok THEN "Ok" ELSE "Err"))
    /\ UNCHANGED <<routes, concurrency_limit, next_msg, senderVars>>

HandlerNext ==
    \/ \E uri \in HandlerUris : register(uri)
    \/ \E m \in ServiceMessage : Dispatch(m)
    \/ \E i \in TaskIds, r \in HandlerOutcomes : HandlerReturn(i, r)
    \/ \E i \in TaskIds, ok \in BOOLEAN : SendComplete(i, ok) /\ UNCHANGED <<brokerVars, libVars>>

\* empty reply topic, consumer at its start
BrokerInit ==
    /\ reply_topic = <<>>
    /\ reply_offset = 0

\* start not called yet
StartInit ==
    /\ start_pc = "idle"
    /\ consumer_loop = "none"

\* the library parts outside the request/response path, at rest
\* no RequestSender constructed besides the one of the sender state
NoSender == [built |-> FALSE]

InstInit ==
    /\ instances = [s \in Senders |-> NoSender]
    /\ inst_pending = [s \in Senders |-> {}]
    /\ reply_net = {}
    /\ consumed_log = {}

\* the decoder has not been called (its result can be None)
NotDecoded == [pending |-> TRUE]

\* nothing encoded, converted or constructed
PureInit ==
    /\ codec = [in |-> NoMsg, wire |-> NoMsg, out |-> NotDecoded]
    /\ kerr = [in |-> NoMsg, out |-> NoMsg]
    /\ consumer_new = [config |-> NoMsg, subscription |-> NoMsg]

\* RouteRegistry::new
RegistryInit ==
    /\ route_registry = HashMapNew
    /\ register_log = <<>>
    /\ macro_form = "none"

\* start just awaited: nothing pulled from the stream yet
OrderInit ==
    /\ ready_queue = <<>>
    /\ started = <<>>
    /\ completed = <<>>
    /\ loop_alive = TRUE
    /\ cancelled = {}

\* tasks that take the lock: the send_request_async calls and the
\* handle_message invocations the consumer loop runs at a time
ReplyTasks == 1..MaxLimit
Threads == ({"call"} \X Calls) \cup ({"reply"} \X ReplyTasks)
NoHolder == <<"none", 0>>

\* RwLock::new: nobody holds the lock, nobody waits for it
LockInit ==
    /\ lock_holder = NoHolder
    /\ lock_waiters = <<>>
    /\ thread_pc = [th \in Threads |-> "idle"]

ExtraInit == OrderInit /\ LockInit

LibInit == StartInit /\ InstInit /\ PureInit /\ RegistryInit /\ ExtraInit

\* a RequestSender at work beside a StreamHandler at rest
InitSender == SenderInit /\ HandlerInit /\ BrokerInit /\ LibInit /\ concurrency_limit = 1

\* a RequestSender built with any timeout_secs, its calls made with or
\* without a timeout of their own
InitConfigured ==
    /\ SenderConstructed
    /\ timeout_secs \in TimeoutSecsArgs
    /\ call_timeout \in [Calls -> CallTimeouts]
    /\ HandlerInit /\ BrokerInit /\ LibInit /\ concurrency_limit = 1

\* a StreamHandler at work beside a RequestSender at rest
InitHandler == HandlerInit /\ SenderInit /\ BrokerInit /\ LibInit

SpecSender == InitSender /\ [][SenderNext]_vars

SpecConfigured == InitConfigured /\ [][SenderNext]_vars

\* the values with_timeout_secs is called with: negative, zero, positive
TimeoutSecsValues == <<-1, 0, 5>>

\* a RequestSender whose calls are made with these timeouts in turn
InitTimers ==
    /\ SenderConstructed
    /\ timeout_secs = DEFAULT_TIMEOUT_SECS
    /\ call_timeout = [c \in Calls |->
            Some(TimeoutSecsValues[((c - 1) % Len(TimeoutSecsValues)) + 1])]
    /\ HandlerInit /\ BrokerInit /\ LibInit /\ concurrency_limit = 1

SpecTimers == InitTimers /\ [][SenderNext]_vars

\* a step of the future of call c: the producer send completes, the sleep
\* future of a finite duration becomes ready, a select with a ready branch
\* takes one, a branch body runs to its return
CallStep(c) ==
    \/ PublishOk(c) \/ PublishFail(c)
    \/ TimerElapse(c)
    \/ SelectRx(c) \/ SelectTimeout(c)
    \/ RxArmReturn(c) \/ TimeoutArmReturn(c)

\* the runtime polls every call's future fairly; nothing obliges the
\* consumer to deliver a reply
CallFairness(c) == WF_vars(CallStep(c))

SpecSenderFair ==
    /\ InitSender
    /\ [][SenderNext]_vars
    /\ \A c \in Calls : CallFairness(c)

\* broker messages without a payload, not UTF-8, or not an envelope
UndecodableService == {m \in ServiceMessage : m.payload # "envelope"}
UndecodableReply == {m \in ReplyMessage : m.payload # "envelope"}

\* both consumers fed only messages that do not decode, while calls are made
\* and time out
UndecodableNext ==
    \/ \E c \in Calls, t \in Tids : InsertPending(c, t)
    \/ \E c \in Calls : PublishOk(c)
    \/ \E c \in Calls : PublishFail(c)
    \/ \E c \in Calls : TimerElapse(c)
    \/ \E c \in Calls : SelectRx(c)
    \/ \E c \in Calls : SelectTimeout(c)
    \/ \E c \in Calls : RxArmReturn(c)
    \/ \E c \in Calls : TimeoutArmReturn(c)
    \/ \E m \in UndecodableReply : handle_message(m) /\ UNCHANGED <<brokerVars, libVars>>
    \/ \E uri \in HandlerUris : register(uri)
    \/ \E m \in UndecodableService : Dispatch(m)

\* a RequestSender and a StreamHandler, each on its own topic; the limit
\* plays no part, a future for such a message returns at its first poll
InitUndecodable == SenderInit /\ HandlerInit /\ BrokerInit /\ LibInit /\ concurrency_limit = 1

SpecUndecodable == InitUndecodable /\ [][UndecodableNext]_vars

SpecHandler == InitHandler /\ [][HandlerNext]_vars

\* the stream has a next message for the consumer, every handler future
\* terminates, every produce future completes, and FuturesUnordered polls
\* each future in progress
SpecHandlerFair ==
    /\ InitHandler
    /\ [][HandlerNext]_vars
    /\ WF_vars(\E m \in ServiceMessage : Dispatch(m))
    /\ \A i \in TaskIds :
        /\ WF_vars(\E r \in HandlerOutcomes : HandlerReturn(i, r))
        /\ WF_vars(\E ok \in BOOLEAN : SendComplete(i, ok) /\ UNCHANGED <<brokerVars, libVars>>)

\* ---------------------------------- RESPONSE envelopes on the service topic
\* envelopes of message type RESPONSE, as another service's reply or a
\* misrouted one arrives on the topic the StreamHandler consumes
ResponseTyped ==
    [message_type : {"RESPONSE"}, source_id : {None},
     transaction_id : {"t1"}, message_id : MessageIds, uri : Uris,
     response_destination :
         ResponseDestination \cup {None, [topic |-> "replies", uri |-> "/cb"]},
     data : {"q"}]

ResponseMessage == [payload : {"envelope"}, env : ResponseTyped]

ResponseInNext ==
    \/ \E uri \in HandlerUris : register(uri)
    \/ \E m \in ResponseMessage : Dispatch(m)
    \/ \E i \in TaskIds, r \in HandlerOutcomes : HandlerReturn(i, r)
    \/ \E i \in TaskIds, ok \in BOOLEAN : SendComplete(i, ok) /\ UNCHANGED <<brokerVars, libVars>>

SpecResponseIn == InitHandler /\ [][ResponseInNext]_vars

\* ------------------------------------- RequestSender, broker, StreamHandler
\* the service's consumer takes the next request from the service topic log
ConsumeRequest ==
    /\ next_msg < Len(service_topic)
    /\ Dispatch([payload |-> "envelope", env |-> service_topic[next_msg + 1]])

\* calls waiting for transaction id t whose timeout has not elapsed
InTime(t) ==
    {c \in Calls : call_tid[c] = t /\ call_pc[c] = "awaiting" /\ ~timer_elapsed[c]}

\* the record the broker appends to the reply topic, with the append time
\* as the set of calls whose timeout had not elapsed by then
ReplyRecord(reply) ==
    [msg |-> reply, in_time |-> InTime(reply.message.transaction_id)]

\* send_response, lines 560-584: a produce that succeeds appends the reply to
\* the reply topic log
PublishReply(i, ok) ==
    /\ SendComplete(i, ok)
    /\ reply_topic' = IF ok THEN Append(reply_topic, ReplyRecord(tasks[i].reply))
                      ELSE reply_topic
    /\ UNCHANGED <<reply_offset, libVars>>

\* the sender's consumer takes the next reply from the reply topic log; a
\* latency beyond the timeout means the timeout of its waiters has elapsed
ConsumeReply(latency) ==
    /\ reply_offset < Len(reply_topic)
    /\ latency >= timeout_secs * 1000
            => \A c \in reply_topic[reply_offset + 1].in_time : timer_elapsed[c]
    /\ handle_message([payload |-> "envelope", latency |-> latency,
                       env |-> reply_topic[reply_offset + 1].msg.message])
    /\ reply_offset' = reply_offset + 1
    /\ UNCHANGED <<reply_topic, libVars>>

EndToEndNext ==
    \/ \E c \in Calls, t \in Tids : InsertPending(c, t)
    \/ \E c \in Calls : PublishOk(c)
    \/ \E c \in Calls : PublishFail(c)
    \/ \E c \in Calls : TimerElapse(c)
    \/ \E c \in Calls : SelectRx(c)
    \/ \E c \in Calls : SelectTimeout(c)
    \/ \E c \in Calls : RxArmReturn(c)
    \/ \E c \in Calls : TimeoutArmReturn(c)
    \/ \E latency \in Latencies : ConsumeReply(latency)
    \/ \E uri \in HandlerUris : register(uri)
    \/ ConsumeRequest
    \/ \E i \in TaskIds, r \in HandlerOutcomes : HandlerReturn(i, r)
    \/ \E i \in TaskIds, ok \in BOOLEAN : PublishReply(i, ok)

\* RequestSender and StreamHandler joined by the broker's two topics
InitEndToEnd == SenderInit /\ HandlerInit /\ BrokerInit /\ LibInit

SpecEndToEnd == InitEndToEnd /\ [][EndToEndNext]_vars

\* ------------------------------------- several RequestSenders, one broker
\* KafkaConsumer::new, lines 106-111: the subscription is the configured
\* list when there is one, [cluster_id] when there is none
subscribe_topics(topics, cid) ==
    IF topics = None THEN <<cid>> ELSE topics.some

\* with_concurrency_limit, lines 178-181
format_response_topic(cid) == cid \o "." \o "9a2ece8f"

with_concurrency_limit(s, cid) ==
    /\ instances[s] = NoSender
    /\ LET topic == format_response_topic(cid)
       IN instances' = [instances EXCEPT ![s] =
              [built |-> TRUE, cluster_id |-> cid, response_topic |-> topic,
               subscription |-> subscribe_topics(Some(<<topic>>), cid),
               group_id |-> cid]]
    /\ UNCHANGED <<inst_pending, reply_net, consumed_log>>
    /\ UNCHANGED <<senderVars, handlerVars, brokerVars, startVars, pureVars,
                   registryVars, extraVars>>

Subscribed(s, topic) ==
    \E i \in DOMAIN instances[s].subscription :
        instances[s].subscription[i] = topic

\* instance s sends a request whose responseDestination names its reply
\* topic; the server's reply to it is put on that topic
InstRequest(s, t) ==
    /\ instances[s] # NoSender
    /\ t \notin inst_pending[s]
    /\ Cardinality(reply_net) + Cardinality(consumed_log) < MaxRequests
    /\ inst_pending' = [inst_pending EXCEPT ![s] = @ \cup {t}]
    /\ reply_net' = reply_net \cup
           {[topic |-> instances[s].response_topic, transaction_id |-> t,
             requester |-> s]}
    /\ UNCHANGED <<instances, consumed_log>>
    /\ UNCHANGED <<senderVars, handlerVars, brokerVars, startVars, pureVars,
                   registryVars, extraVars>>

\* the broker hands a reply to one member of a consumer group subscribed
\* to its topic (instances with one reply topic also have one group.id);
\* handle_message, lines 263-288, then looks the transaction id up
InstConsume(s, r) ==
    /\ r \in reply_net
    /\ instances[s] # NoSender
    /\ Subscribed(s, r.topic)
    /\ reply_net' = reply_net \ {r}
    /\ consumed_log' = consumed_log \cup
           {[reply |-> r, by |-> s,
             found |-> r.transaction_id \in inst_pending[s]]}
    /\ inst_pending' = [inst_pending EXCEPT ![s] = @ \ {r.transaction_id}]
    /\ UNCHANGED instances
    /\ UNCHANGED <<senderVars, handlerVars, brokerVars, startVars, pureVars,
                   registryVars, extraVars>>

InstancesNext ==
    \/ \E s \in Senders, cid \in ClusterIds : with_concurrency_limit(s, cid)
    \/ \E s \in Senders, t \in Tids : InstRequest(s, t)
    \/ \E s \in Senders : \E r \in reply_net : InstConsume(s, r)

SpecInstances == InitSender /\ [][InstancesNext]_vars

\* ------------------------------------------- functions applied to a value
\* data payloads: null, a string, an object
JsonData == {JNull, JStr("q"), JObj([data |-> JStr("p1")])}

\* valid envelopes handed to the encoder
CodecEnvelope ==
    [message_type : MessageTypeNames, source_id : {None, Some(cluster_id)},
     transaction_id : {"t1"}, message_id : MessageIds, uri : {"/a"},
     response_destination :
         {None, [topic |-> response_topic, uri |-> RequestResponseUri],
          [topic |-> "", uri |-> ""]},
     data : JsonData]

\* topics of a KafkaClientConfig
TopicLists == {None, Some(<<>>), Some(<<"orders">>), Some(<<"orders", "audit">>)}
ConsumerConfigs == [cluster_id : ClusterIds, topics : TopicLists]

Encode ==
    /\ codec.wire = NoMsg
    /\ codec' = [codec EXCEPT !.wire = to_string(codec.in)]
    /\ UNCHANGED <<kerr, consumer_new>>
    /\ UNCHANGED <<senderVars, handlerVars, brokerVars, startVars, instVars,
                   registryVars, extraVars>>

Decode ==
    /\ codec.wire # NoMsg
    /\ codec.out = NotDecoded
    /\ codec' = [codec EXCEPT !.out = from_str(codec.wire)]
    /\ UNCHANGED <<kerr, consumer_new>>
    /\ UNCHANGED <<senderVars, handlerVars, brokerVars, startVars, instVars,
                   registryVars, extraVars>>

ToResponse ==
    /\ kerr.out = NoMsg
    /\ kerr' = [kerr EXCEPT !.out = kafka_to_response(kerr.in)]
    /\ UNCHANGED <<codec, consumer_new>>
    /\ UNCHANGED <<senderVars, handlerVars, brokerVars, startVars, instVars,
                   registryVars, extraVars>>

\* KafkaConsumer::new, lines 106-115
KafkaConsumer_new ==
    /\ consumer_new.subscription = NoMsg
    /\ consumer_new' = [consumer_new EXCEPT !.subscription =
           Some(subscribe_topics(consumer_new.config.topics,
                                 consumer_new.config.cluster_id))]
    /\ UNCHANGED <<codec, kerr>>
    /\ UNCHANGED <<senderVars, handlerVars, brokerVars, startVars, instVars,
                   registryVars, extraVars>>

LibraryNext ==
    \/ Encode
    \/ Decode
    \/ ToResponse
    \/ KafkaConsumer_new

InitLibrary ==
    /\ SenderInit /\ HandlerInit /\ BrokerInit /\ StartInit /\ InstInit
    /\ RegistryInit /\ ExtraInit
    /\ concurrency_limit = 1
    /\ codec \in [in : CodecEnvelope, wire : {NoMsg}, out : {NotDecoded}]
    /\ kerr \in [in : KafkaErrors, out : {NoMsg}]
    /\ consumer_new \in [config : ConsumerConfigs, subscription : {NoMsg}]

SpecLibrary == InitLibrary /\ [][LibraryNext]_vars

\* ---------------------------------------------------------- RouteRegistry
RegistryUris == {"/a", "/b", "/x"}
Handlers == {"h1", "h2"}
Routes == [uri : RegistryUris, handler : Handlers]

\* mutant: a uri already registered keeps its first handler
register_route_KeepsFirst(map, uri, handler) ==
    IF uri \in DOMAIN map THEN map ELSE HashMapInsert(map, uri, handler)

\* RouteRegistry::register, line 87: routes.insert(uri, handler)
register_route(map, uri, handler) == HashMapInsert(map, uri, handler)

RouteRegistry_register(uri, handler) ==
    /\ Len(register_log) < MaxRegisters
    /\ macro_form # "no_match"
    /\ route_registry' = register_route(route_registry, uri, handler)
    /\ register_log' = Append(register_log, [uri |-> uri, handler |-> handler])
    /\ UNCHANGED macro_form
    /\ UNCHANGED <<senderVars, handlerVars, brokerVars, startVars, instVars, pureVars,
                   extraVars>>

\* the arms of macro_rules! routes: no route and no comma, one route and
\* no comma, two or more routes with or without a trailing comma
macro_matches(n, trailing_comma) ==
    IF n <= 1 THEN ~trailing_comma ELSE TRUE

RECURSIVE register_all(_, _)
\* the register calls a matching arm expands to, in source order
register_all(map, rs) ==
    IF rs = <<>> THEN map
    ELSE register_all(register_route(map, Head(rs).uri, Head(rs).handler), Tail(rs))

RouteLists == UNION {[1..n -> Routes] : n \in 0..MaxRegisters}

\* routes![...] with the routes rs; an invocation no arm matches is
\* rejected by the compiler and yields no registry
routes_macro(rs, trailing_comma) ==
    /\ macro_form = "none"
    /\ register_log = <<>>
    /\ IF macro_matches(Len(rs), trailing_comma)
       THEN /\ macro_form' = "expanded"
            /\ route_registry' = register_all(HashMapNew, rs)
            /\ register_log' = rs
       ELSE /\ macro_form' = "no_match"
            /\ UNCHANGED <<route_registry, register_log>>
    /\ UNCHANGED <<senderVars, handlerVars, brokerVars, startVars, instVars, pureVars,
                   extraVars>>

\* RouteRegistry::has_handler
has_handler(uri) == uri \in DOMAIN route_registry

\* RouteRegistry::get_registered_uris: the keys, in no particular order
get_registered_uris == DOMAIN route_registry

\* RouteRegistry::get_handler
RouteRegistry_get_handler(uri) ==
    IF uri \in DOMAIN route_registry THEN Some(route_registry[uri]) ELSE None

RegistryNext ==
    \/ \E uri \in RegistryUris, h \in Handlers : RouteRegistry_register(uri, h)
    \/ \E rs \in RouteLists, tc \in BOOLEAN : routes_macro(rs, tc)

SpecRegistry == InitSender /\ [][RegistryNext]_vars

\* ------------------------------------ the consumer loop, future by future
SeqToSet(s) == {s[k] : k \in DOMAIN s}

\* messages taken from the stream so far
Pulled == Len(ready_queue) + Len(started)

\* stream indices of the futures that have returned
CompletedIds == {completed[k].id : k \in DOMAIN completed}

\* futures buffer_unordered holds
Held == (SeqToSet(ready_queue) \cup SeqToSet(started)) \ CompletedIds

\* buffer_unordered, while fewer than the limit are held: the next stream
\* item becomes a future pushed to FuturesUnordered
OrderPull ==
    /\ loop_alive
    /\ Pulled < MaxMsgs
    /\ Cardinality(Held) < concurrency_limit
    /\ ready_queue' = Append(ready_queue, Pulled + 1)
    /\ UNCHANGED <<started, completed, loop_alive, cancelled>>
    /\ UNCHANGED <<senderVars, handlerVars, brokerVars, startVars, instVars, pureVars,
                   registryVars, lockVars>>

\* mutant: the future pushed last is polled first
ready_pick_Last(q) == q[Len(q)]

\* FuturesUnordered hands out its ready-to-run queue first in, first out
ready_pick(q) == Head(q)

\* the first poll of a future: `handler(m.detach())` is called
FirstPoll ==
    /\ loop_alive
    /\ ready_queue # <<>>
    /\ LET i == ready_pick(ready_queue)
       IN /\ started' = Append(started, i)
          /\ ready_queue' = SelectSeq(ready_queue, LAMBDA x : x # i)
    /\ UNCHANGED <<completed, loop_alive, cancelled>>
    /\ UNCHANGED <<senderVars, handlerVars, brokerVars, startVars, instVars, pureVars,
                   registryVars, lockVars>>

\* a handler future in flight returns and its output goes to for_each,
\* which logs an Err and goes on
OrderComplete(i, res) ==
    /\ loop_alive
    /\ i \in SeqToSet(started) \ CompletedIds
    /\ completed' = Append(completed, [id |-> i, result |-> res])
    /\ UNCHANGED <<ready_queue, started, loop_alive, cancelled>>
    /\ UNCHANGED <<senderVars, handlerVars, brokerVars, startVars, instVars, pureVars,
                   registryVars, lockVars>>

\* the caller drops (or aborts the task awaiting) the future returned by
\* start: the stream combinators and every future buffer_unordered holds
\* are dropped with it
DropStart ==
    /\ loop_alive
    /\ loop_alive' = FALSE
    /\ cancelled' = SeqToSet(started) \ CompletedIds
    /\ ready_queue' = <<>>
    /\ UNCHANGED <<started, completed>>
    /\ UNCHANGED <<senderVars, handlerVars, brokerVars, startVars, instVars, pureVars,
                   registryVars, lockVars>>

OrderNext ==
    \/ OrderPull
    \/ FirstPoll
    \/ \E i \in TaskIds, res \in {"Ok", "Err"} : OrderComplete(i, res)
    \/ DropStart

SpecOrder == InitHandler /\ [][OrderNext]_vars

\* ------------------------------------ the lock of the pending table
LockFrame ==
    UNCHANGED <<senderVars, handlerVars, brokerVars, startVars, instVars, pureVars,
                registryVars, orderVars>>

\* RwLock::write().await: the task queues for the lock
write_request(th, waiting) ==
    /\ lock_waiters' = Append(lock_waiters, th)
    /\ thread_pc' = [thread_pc EXCEPT ![th] = waiting]
    /\ UNCHANGED lock_holder

\* the lock is free: the task at the head of the queue gets the guard
write_granted(th) ==
    /\ lock_holder = NoHolder
    /\ lock_waiters # <<>> /\ Head(lock_waiters) = th
    /\ lock_holder' = th
    /\ lock_waiters' = Tail(lock_waiters)
    /\ thread_pc' = [thread_pc EXCEPT ![th] =
                        CASE thread_pc[th] = "wait_insert" -> "hold_insert"
                          [] thread_pc[th] = "wait_remove" -> "hold_remove"
                          [] thread_pc[th] = "wait_resolve" -> "hold_resolve"]
    /\ LockFrame

\* mutant: the guard taken for the insert lives to the end of the function
insert_guard_scope_WholeFunction(th) == th

\* send_request_async, lines 354-358: the guard taken for the insert is
\* dropped at the end of its block
insert_guard_scope(th) == NoHolder

\* send_request_async, line 355
CallWriteInsert(c) ==
    /\ thread_pc[<<"call", c>>] = "idle"
    /\ write_request(<<"call", c>>, "wait_insert")
    /\ LockFrame

\* send_request_async, lines 356-358: insert under the guard
CallInsert(c) ==
    /\ thread_pc[<<"call", c>>] = "hold_insert"
    /\ lock_holder = <<"call", c>>
    /\ lock_holder' = insert_guard_scope(<<"call", c>>)
    /\ thread_pc' = [thread_pc EXCEPT ![<<"call", c>>] = "publishing"]
    /\ UNCHANGED lock_waiters
    /\ LockFrame

\* send_request_async, lines 360-367: the producer send returns Ok, the
\* select starts; or it returns Err, and so does the call
CallPublish(c, ok) ==
    /\ thread_pc[<<"call", c>>] = "publishing"
    /\ thread_pc' = [thread_pc EXCEPT ![<<"call", c>>] = IF ok THEN "select" ELSE "returned"]
    /\ UNCHANGED <<lock_holder, lock_waiters>>
    /\ LockFrame

\* send_request_async, lines 370-371 and 377-379: rx or the sleep is ready,
\* the branch taken asks for the lock
CallWriteRemove(c) ==
    /\ thread_pc[<<"call", c>>] = "select"
    /\ write_request(<<"call", c>>, "wait_remove")
    /\ LockFrame

\* send_request_async, lines 371 and 379: remove under the guard, a
\* temporary dropped at the end of the statement
CallRemove(c) ==
    /\ thread_pc[<<"call", c>>] = "hold_remove"
    /\ lock_holder = <<"call", c>>
    /\ lock_holder' = NoHolder
    /\ thread_pc' = [thread_pc EXCEPT ![<<"call", c>>] = "returned"]
    /\ UNCHANGED lock_waiters
    /\ LockFrame

\* handle_message, line 269, of a reply that is fresh and parses
ReplyWrite(k) ==
    /\ thread_pc[<<"reply", k>>] = "idle"
    /\ write_request(<<"reply", k>>, "wait_resolve")
    /\ LockFrame

\* handle_message, lines 271-290: remove and resolve under the guard, which
\* is dropped when the function returns; the task takes the next reply
ReplyResolve(k) ==
    /\ thread_pc[<<"reply", k>>] = "hold_resolve"
    /\ lock_holder = <<"reply", k>>
    /\ lock_holder' = NoHolder
    /\ thread_pc' = [thread_pc EXCEPT ![<<"reply", k>>] = "idle"]
    /\ UNCHANGED lock_waiters
    /\ LockFrame

LockNext ==
    \/ \E th \in Threads : write_granted(th)
    \/ \E c \in Calls : CallWriteInsert(c)
    \/ \E c \in Calls : CallInsert(c)
    \/ \E c \in Calls, ok \in BOOLEAN : CallPublish(c, ok)
    \/ \E c \in Calls : CallWriteRemove(c)
    \/ \E c \in Calls : CallRemove(c)
    \/ \E k \in ReplyTasks : ReplyWrite(k)
    \/ \E k \in ReplyTasks : ReplyResolve(k)

SpecLock == InitSender /\ [][LockNext]_vars

\* ------------------------------------------------------ consumer start-up
\* RequestSender::start awaits KafkaConsumer::start, whose for_each loop is
\* awaited inside the call
StartCall ==
    /\ start_pc = "idle"
    /\ start_pc' = "in_start"
    /\ consumer_loop' = "running"
    /\ UNCHANGED <<senderVars, handlerVars, brokerVars, instVars, pureVars,
                   registryVars, extraVars>>

\* the loop hands the next message of the reply topic to handle_message
LoopHandle(m) ==
    /\ consumer_loop = "running"
    /\ handle_message(m)
    /\ UNCHANGED <<brokerVars, libVars>>

\* the message stream ends
StreamEnd ==
    /\ consumer_loop = "running"
    /\ consumer_loop' = "ended"
    /\ UNCHANGED <<start_pc, senderVars, handlerVars, brokerVars, instVars, pureVars,
                   registryVars, extraVars>>

\* KafkaConsumer::start, lines 150-152: for_each has completed, Ok(()) goes
\* back to the caller
StartReturn ==
    /\ start_pc = "in_start"
    /\ consumer_loop = "ended"
    /\ start_pc' = "returned"
    /\ UNCHANGED <<consumer_loop, senderVars, handlerVars, brokerVars, instVars,
                   pureVars, registryVars, extraVars>>

StartNext ==
    \/ StartCall
    \/ \E m \in ReplyMessage : LoopHandle(m)
    \/ StreamEnd
    \/ StartReturn
    \/ \E c \in Calls, t \in Tids : InsertPending(c, t)
    \/ \E c \in Calls : PublishOk(c)
    \/ \E c \in Calls : PublishFail(c)
    \/ \E c \in Calls : TimerElapse(c)
    \/ \E c \in Calls : SelectRx(c)
    \/ \E c \in Calls : SelectTimeout(c)
    \/ \E c \in Calls : RxArmReturn(c)
    \/ \E c \in Calls : TimeoutArmReturn(c)

\* the runtime schedules the caller of start and the loop fairly; nothing
\* obliges the stream to end
SpecStart ==
    /\ InitSender
    /\ [][StartNext]_vars
    /\ WF_vars(StartCall)
    /\ WF_vars(StartReturn)
    /\ WF_vars(\E m \in ReplyMessage : LoopHandle(m))

\* ====================================================================
\* Properties of the RequestSender (checked under SpecSender)
\* ====================================================================
Returned(c) == call_pc[c] = "returned"

C2_NoEntryWhenCallReturns ==
    [][\A c \in Calls :
        (~Returned(c) /\ call_pc'[c] = "returned")
            => call_tid[c] \notin DOMAIN pending_requests']_vars

\* C3 as stated: a call into whose sink handle_message delivered a reply
\* (having removed the entry) returns that reply, never a TimeoutError.
C3_DeliveredReplyIsReturned ==
    \A c \in Calls :
        (Returned(c) /\ chan[c] # NoMsg)
            => outcome[c] = [kind |-> "Response", env |-> chan[c]]

\* C9: a handle_message step for an envelope whose transaction id has no
\* pending entry leaves the pending table, every sink and every call as they
\* were.
C9_UnknownReplyChangesNothing ==
    [][\/ UNCHANGED <<pending_requests, tx, chan, call_pc, call_tid, outcome>>
       \/ \A m \in ReplyMessage :
            ~(/\ m.payload = "envelope"
              /\ m.env.transaction_id \notin DOMAIN pending_requests
              /\ handle_message(m))]_vars

\* C9 witness: a reply was dropped as not found while another call's entry
\* is in the table with its sink open.
C9_Witness ==
    /\ reply_log = "not found"
    /\ \E c \in Calls :
        /\ call_pc[c] = "awaiting" /\ tx[c] = "live"
        /\ call_tid[c] \in DOMAIN pending_requests
        /\ pending_requests[call_tid[c]] = c

\* C10: the envelope in a call's sink, and the envelope a call returns, carry
\* the call's own transaction id.
C10_ReplyMatchesTransaction ==
    \A c \in Calls :
        /\ chan[c] # NoMsg => chan[c].transaction_id = call_tid[c]
        /\ outcome[c].kind = "Response" => outcome[c].env.transaction_id = call_tid[c]

\* C10 witness: two calls with different transaction ids were pending
\* together; one has returned its reply and the other holds its own.
C10_Witness ==
    \E c, d \in Calls :
        /\ call_tid[c] # call_tid[d]
        /\ outcome[c].kind = "Response"
        /\ call_pc[d] = "awaiting" /\ chan[d] # NoMsg

\* C14 as stated: handle_message finds a reply expired exactly when its latency
\* in milliseconds is greater than timeout_secs * 1000 and greater than 0.
C14_ExpiredIffBeyondTimeoutMillis ==
    [][\/ UNCHANGED reply_log
       \/ \A m \in ReplyMessage :
            (m.payload = "envelope" /\ handle_message(m))
                => ((reply_log' = "expired")
                        <=> (m.latency > 0 /\ m.latency > timeout_secs * 1000))]_vars

\* C15 as stated: a reply whose latency has reached the default timeout (both
\* in milliseconds) is dropped, the table and every sink left as they were,
\* and a reply whose latency is below it is never dropped as stale.
C15_StaleIffTimeoutReached ==
    [][\/ UNCHANGED reply_log
       \/ \A m \in ReplyMessage :
            (m.payload = "envelope" /\ handle_message(m))
                => /\ m.latency >= timeout_secs * 1000
                        => (reply_log' = "expired" /\ UNCHANGED <<pending_requests, tx, chan>>)
                   /\ m.latency < timeout_secs * 1000 => reply_log' # "expired"]_vars

\* C16 as stated: the sleep of a call's select is given the call's own
\* timeout when it has one, and otherwise the timeout_secs the RequestSender
\* was constructed with.
C16_DeadlineIsConstructorDefault ==
    \A c \in Calls :
        sleep_secs[c] # None
            => sleep_secs[c] = Some(from_secs(as_u64(unwrap_or(call_timeout[c], timeout_secs))))

\* C17: a call leaves its start only by inserting the entry for its
\* transaction id, publishing nothing in that step; and a request is appended
\* to the service topic only by a call that has inserted its entry. Insertion
\* comes before publication.
C17_InsertedBeforePublished ==
    [][/\ \A c \in Calls :
            (call_pc[c] = "idle" /\ call_pc'[c] # "idle")
                => /\ call_pc'[c] = "inserted"
                   /\ call_tid'[c] \in DOMAIN pending_requests'
                   /\ pending_requests'[call_tid'[c]] = c
                   /\ service_topic' = service_topic
       /\ service_topic' # service_topic
            => \E c \in Calls :
                /\ call_pc[c] = "inserted" /\ call_pc'[c] \in {"awaiting", "rx_arm", "timeout_arm"}
                /\ service_topic' = Append(service_topic, RequestEnvelope(call_tid[c]))]_vars

\* C17 witness: a request is on the service topic while its call waits with
\* its entry in the table.
C17_Witness ==
    \E c \in Calls :
        /\ call_pc[c] = "awaiting"
        /\ \E k \in DOMAIN service_topic : service_topic[k].transaction_id = call_tid[c]
        /\ call_tid[c] \in DOMAIN pending_requests
        /\ pending_requests[call_tid[c]] = c

\* C18: the table holds one entry per transaction id, owned by a call with
\* that id whose sink is open; an insert for an id already in the table puts
\* the new call in the old one's place and closes the old call's sink; and a
\* closed sink is never completed afterwards.
C18_InsertReplacesAndAbandons ==
    /\ [](\A t \in DOMAIN pending_requests :
            call_tid[pending_requests[t]] = t /\ tx[pending_requests[t]] = "live")
    /\ [][\A c \in Calls :
            (call_pc[c] = "idle" /\ call_pc'[c] = "inserted")
                => /\ DOMAIN pending_requests' = DOMAIN pending_requests \cup {call_tid'[c]}
                   /\ pending_requests'[call_tid'[c]] = c
                   /\ call_tid'[c] \in DOMAIN pending_requests
                        => tx'[pending_requests[call_tid'[c]]] = "dropped"]_vars
    /\ [][\A o \in Calls :
            tx[o] = "dropped" => (tx'[o] = "dropped" /\ chan'[o] = chan[o])]_vars

\* C18 witness: a call waits on a sink abandoned by a second call with the
\* same transaction id, which now owns the entry.
C18_Witness ==
    \E c, d \in Calls :
        /\ c # d /\ call_tid[c] = call_tid[d]
        /\ call_pc[c] = "awaiting" /\ tx[c] = "dropped" /\ chan[c] = NoMsg
        /\ call_tid[d] \in DOMAIN pending_requests
        /\ pending_requests[call_tid[d]] = d

\* ====================================================================
\* Properties of the StreamHandler (checked under SpecHandler)
\* ====================================================================
\* a process_message future that decoded an envelope
Decoded(t) == t.msg # NoMsg /\ t.msg.payload = "envelope"
Completed(t) == t.phase = "done" /\ Decoded(t)

\* the envelope asks for a reply: destination present, topic and uri non-empty
HasLiveDestination(env) ==
    /\ env.response_destination # None
    /\ env.response_destination.topic # ""
    /\ env.response_destination.uri # ""

\* the single RESPONSE a task handed to the producer for its envelope
OneResponseFor(t) ==
    /\ Len(t.sends) = 1
    /\ t.sends[1].msg.message.message_type = "RESPONSE"
    /\ t.sends[1].msg.message.transaction_id = t.msg.env.transaction_id

\* futures still in progress have handed nothing to the producer yet
NothingSentInFlight == \A i \in TaskIds : tasks[i].sends = <<>>

\* C4 as stated: an envelope with a live destination and a registered uri
\* gets exactly one RESPONSE with its transaction id, whatever the handler
\* returns.
C4_OneResponseWhateverHandlerReturns ==
    (Completed(yielded) /\ HasLiveDestination(yielded.msg.env)
        /\ yielded.msg.env.uri \in routes)
        => OneResponseFor(yielded)

\* C4 (amended): for an envelope with a live destination and a registered
\* uri, exactly one RESPONSE with its transaction id is published (one
\* producer send) when the handler returns Response or fails, and none when
\* the handler returns Acknowledge.
C4_OneResponseUnlessAcknowledge ==
    /\ NothingSentInFlight
    /\ (Completed(yielded) /\ HasLiveDestination(yielded.msg.env)
            /\ yielded.msg.env.uri \in routes)
        => /\ yielded.handler_calls = 1
           /\ yielded.handler_result.kind \in {"Response", "Err"} => OneResponseFor(yielded)
           /\ yielded.handler_result.kind = "Acknowledge" => yielded.sends = <<>>

\* C4 witness: a handler failed on a routed request with a live destination
\* and one RESPONSE went out.
C4_Witness ==
    /\ Completed(yielded) /\ HasLiveDestination(yielded.msg.env)
    /\ yielded.msg.env.uri \in routes
    /\ yielded.handler_result.kind = "Err"
    /\ OneResponseFor(yielded)

\* C5: an envelope with a live destination whose uri has no handler gets
\* exactly one RESPONSE, whose data carries status.code = URI_NOT_FOUND, and
\* no handler is invoked for it.
C5_NotFoundRepliesOnce ==
    /\ NothingSentInFlight
    /\ \A i \in TaskIds :
        (tasks[i].phase \in {"handler", "sending"} /\ tasks[i].msg.env.uri \notin routes)
            => tasks[i].handler_calls = 0
    /\ (Completed(yielded) /\ HasLiveDestination(yielded.msg.env)
            /\ yielded.msg.env.uri \notin routes)
        => /\ OneResponseFor(yielded)
           /\ yielded.sends[1].msg.message.data.status.code = "URI_NOT_FOUND"
           /\ yielded.handler_calls = 0

\* C5 witness: an unrouted request with a live destination completed with its
\* URI_NOT_FOUND reply sent.
C5_Witness ==
    /\ Completed(yielded) /\ HasLiveDestination(yielded.msg.env)
    /\ yielded.msg.env.uri \notin routes
    /\ Len(yielded.sends) = 1
    /\ yielded.sends[1].ok

\* C6: an envelope without a live destination (absent, topic empty or uri
\* empty) never gets a RESPONSE: nothing is sent and no send is ever pending
\* for it, for an unregistered uri as for any handler outcome.
C6_NoReplyWithoutLiveDestination ==
    /\ \A i \in TaskIds :
        tasks[i].phase = "sending" => HasLiveDestination(tasks[i].msg.env)
    /\ (Completed(yielded) /\ ~HasLiveDestination(yielded.msg.env))
        => yielded.sends = <<>>

\* C6 witness: a handler returned Response for an envelope whose destination
\* is present but not live, and nothing was sent.
C6_Witness ==
    /\ Completed(yielded)
    /\ yielded.msg.env.response_destination # None
    /\ ~HasLiveDestination(yielded.msg.env)
    /\ yielded.handler_result.kind = "Response"
    /\ yielded.sends = <<>>

\* C7: when the handler returns Acknowledge nothing is published for the
\* envelope, live destination or not.
C7_AcknowledgePublishesNothing ==
    /\ \A i \in TaskIds :
        tasks[i].phase = "sending" => tasks[i].handler_result.kind # "Acknowledge"
    /\ (Completed(yielded) /\ yielded.handler_result.kind = "Acknowledge")
        => yielded.sends = <<>>

\* C7 witness: a handler acknowledged a request that has a live destination.
C7_Witness ==
    /\ Completed(yielded) /\ HasLiveDestination(yielded.msg.env)
    /\ yielded.handler_result.kind = "Acknowledge"
    /\ yielded.sends = <<>>

\* C8: at most concurrency_limit process_message futures are in progress.
C8_InFlightWithinLimit == Cardinality(InFlight) <= concurrency_limit

\* C8 witness: the consumer is at its limit with two futures in progress
\* while the stream has more messages to deliver.
C8_Witness ==
    /\ concurrency_limit >= 2
    /\ Cardinality(InFlight) = concurrency_limit
    /\ next_msg < MaxMsgs

\* the reply envelope the server owes the incoming envelope env
ReplyIsFor(reply, env) ==
    /\ reply.topic = env.response_destination.topic
    /\ reply.message.uri = env.response_destination.uri
    /\ reply.message.message_type = "RESPONSE"
    /\ reply.message.message_id = env.message_id
    /\ reply.message.transaction_id = env.transaction_id
    /\ reply.message.response_destination = None

\* C12: every reply handed to the producer, pending or sent, is a RESPONSE
\* with the incoming envelope's message id and transaction id, no response
\* destination, addressed to the incoming destination's topic and uri.
C12_ReplyEchoesRequest ==
    /\ \A i \in TaskIds :
        tasks[i].phase = "sending" => ReplyIsFor(tasks[i].reply, tasks[i].msg.env)
    /\ \A k \in DOMAIN yielded.sends :
        ReplyIsFor(yielded.sends[k].msg, yielded.msg.env)

\* C12 witness: a reply went out for message id m2 to a destination other
\* than the sender's reply topic.
C12_Witness ==
    /\ Completed(yielded) /\ Len(yielded.sends) = 1 /\ yielded.sends[1].ok
    /\ yielded.msg.env.message_id = "m2"
    /\ yielded.sends[1].msg.topic = "replies"
    /\ yielded.sends[1].msg.message.uri = "/cb"

\* C13 as stated: every reply handed to the producer carries the server's
\* cluster id as its source id.
C13_ReplyCarriesClusterId ==
    /\ \A i \in TaskIds :
        tasks[i].phase = "sending" => tasks[i].reply.message.source_id = Some(cluster_id)
    /\ \A k \in DOMAIN yielded.sends :
        yielded.sends[k].msg.message.source_id = Some(cluster_id)

\* C19: the stream is pulled again whenever it has a message and a free
\* slot, whatever was handed to for_each before, a failed handler's Err
\* included.
C19_HandlerFailureKeepsLoop ==
    (next_msg < MaxMsgs /\ Cardinality(InFlight) < concurrency_limit)
        => ENABLED (\E m \in ServiceMessage : Dispatch(m))

\* C19 witness: with one slot, a handler failed, its future returned Err, and
\* the following message is with its handler.
C19_Witness ==
    /\ concurrency_limit = 1
    /\ yielded.handler_result.kind = "Err" /\ yielded.result = "Err"
    /\ next_msg >= 2
    /\ tasks[next_msg].phase = "handler"

\* C25: a destination is live exactly when it is present and both its
\* topic and its uri are non-empty, for every envelope the server has
\* decoded; a future awaits the producer only for a live one.
C25_LiveIffBothFieldsNonEmpty ==
    /\ \A i \in TaskIds :
        /\ Decoded(tasks[i]) =>
               (should_response(tasks[i].msg.env)
                    <=> HasLiveDestination(tasks[i].msg.env))
        /\ tasks[i].phase = "sending" => should_response(tasks[i].msg.env)
    /\ Decoded(yielded) =>
           (should_response(yielded.msg.env) <=> HasLiveDestination(yielded.msg.env))

\* C25 witness: a handler is running for an envelope whose destination is
\* present with an empty uri, which is not live, while a reply is being sent
\* for another envelope whose destination is.
C25_Witness ==
    \E i, j \in TaskIds :
        /\ tasks[i].phase = "handler"
        /\ tasks[i].msg.env.response_destination # None
        /\ tasks[i].msg.env.response_destination.uri = ""
        /\ ~should_response(tasks[i].msg.env)
        /\ tasks[j].phase = "sending"
        /\ should_response(tasks[j].msg.env)

\* the status object of an error reply: code and message set, data null,
\* and nothing of the handler's output next to it
IsStatusObject(data, code) ==
    /\ DOMAIN data = {"status", "data"}
    /\ data.data = None
    /\ data.status.code = code
    /\ data.status.message # <<>>
    /\ data.status.data = None

\* what the data field of reply must be for the future t that built it
ReplyDataFits(t, reply) ==
    CASE t.handler_result.kind = "Response" ->
             reply.message.data = [data |-> t.handler_result.payload]
      [] t.handler_result.kind = "Err" ->
             IsStatusObject(reply.message.data, "INTERNAL_SERVER_ERROR")
      [] t.handler_result.kind = "none" ->
             IsStatusObject(reply.message.data, "URI_NOT_FOUND")
      [] OTHER -> FALSE

\* C29: the data of every reply handed to the producer is {data: p} and
\* nothing else when the handler returned Response(p), and the status object
\* of the error when the handler failed or no handler was found.
C29_ReplyDataShape ==
    /\ \A i \in TaskIds :
        tasks[i].phase = "sending" => ReplyDataFits(tasks[i], tasks[i].reply)
    /\ \A k \in DOMAIN yielded.sends :
        ReplyDataFits(yielded, yielded.sends[k].msg)

\* C29 witness: a success reply {data: p1} has been published while an
\* error reply for a failed handler is with the producer.
C29_Witness ==
    /\ Completed(yielded) /\ yielded.handler_result.kind = "Response"
    /\ Len(yielded.sends) = 1 /\ yielded.sends[1].ok
    /\ yielded.sends[1].msg.message.data = [data |-> "p1"]
    /\ \E i \in TaskIds :
        /\ tasks[i].phase = "sending"
        /\ tasks[i].handler_result.kind = "Err"
        /\ tasks[i].reply.message.data.status.code = "INTERNAL_SERVER_ERROR"

\* ====================================================================
\* Progress of the StreamHandler (checked under SpecHandlerFair)
\* ====================================================================
\* C31: with more messages in the stream than the concurrency limit, every
\* message is eventually pulled and its future eventually completes; a
\* future that leaves the producer has handed over exactly one RESPONSE with
\* its own transaction id.
C31_NoRequestStarved ==
    /\ \A i \in TaskIds : <>(tasks[i].phase = "done")
    /\ [][\A i \in TaskIds :
            (tasks[i].phase = "sending" /\ tasks'[i].phase = "done")
                => (/\ yielded'.msg = tasks[i].msg
                    /\ Len(yielded'.sends) = 1
                    /\ yielded'.sends[1].msg.message.message_type = "RESPONSE"
                    /\ yielded'.sends[1].msg.message.transaction_id
                           = tasks[i].msg.env.transaction_id)]_vars

\* C31 witness: with a limit of one, all messages of the stream have been
\* processed and the last one, for transaction t2, got its RESPONSE after a
\* handler returned Response.
C31_Witness ==
    /\ concurrency_limit = 1 /\ next_msg = MaxMsgs
    /\ \A i \in TaskIds : tasks[i].phase = "done"
    /\ Completed(yielded) /\ yielded.handler_result.kind = "Response"
    /\ yielded.msg.env.transaction_id = "t2"
    /\ OneResponseFor(yielded) /\ yielded.sends[1].ok

\* ====================================================================
\* Properties of both consumers (checked under SpecUndecodable)
\* ====================================================================
\* C20: a message that does not decode is dropped. On the server no future
\* for it is ever with a handler or the producer, its future returns with no
\* handler called and nothing sent, and the stream is pulled again; on the
\* client a handle_message step for it leaves the table, the sinks and the
\* calls as they were.
C20_UndecodableIsDropped ==
    /\ [](/\ \A i \in InFlight : Decoded(tasks[i])
          /\ (yielded.phase = "done" /\ ~Decoded(yielded))
                => /\ yielded.handler_calls = 0
                   /\ yielded.reply = NoMsg
                   /\ yielded.sends = <<>>
          /\ next_msg < MaxMsgs => ENABLED (\E m \in ServiceMessage : Dispatch(m)))
    /\ [][\/ UNCHANGED <<pending_requests, tx, chan, call_pc, call_tid, outcome>>
          \/ \A m \in UndecodableReply : ~handle_message(m)]_vars

\* C20 witness: the server dropped an undecodable message with a handler
\* registered and went on to pull the next one, and the client dropped one
\* while a call was waiting with its entry in the table.
C20_Witness ==
    /\ routes # {} /\ next_msg >= 2
    /\ yielded.phase = "done" /\ ~Decoded(yielded)
    /\ reply_log \in {"no payload", "parse failed"}
    /\ \E c \in Calls :
        /\ call_pc[c] = "awaiting" /\ tx[c] = "live"
        /\ call_tid[c] \in DOMAIN pending_requests

\* ====================================================================
\* Properties of the composition (checked under SpecEndToEnd)
\* ====================================================================
\* the reply a handler's Response(p) becomes
IsResponseOf(env, p) == env.message_type = "RESPONSE" /\ env.data = [data |-> p]

\* C11 as stated: a call whose request was answered with Response(p), the
\* reply reaching the reply topic before the call's timeout elapsed, returns
\* the RESPONSE envelope with its transaction id and data = {"data": p},
\* never a TimeoutError.
C11_TimelyReplyIsReturned ==
    \A c \in Calls, k \in DOMAIN reply_topic :
        (Returned(c) /\ c \in reply_topic[k].in_time
            /\ IsResponseOf(reply_topic[k].msg.message, "p1"))
            => /\ outcome[c].kind = "Response"
               /\ outcome[c].env.transaction_id = call_tid[c]
               /\ IsResponseOf(outcome[c].env, "p1")

\* ====================================================================
\* Properties of the StreamHandler given RESPONSE envelopes (checked under
\* SpecResponseIn)
\* ====================================================================
\* C23 as stated: nothing is handed to the producer in reaction to an
\* envelope of message type RESPONSE, whatever its response destination.
C23_ResponseIsTerminal ==
    /\ \A i \in TaskIds :
        tasks[i].phase = "sending" => tasks[i].msg.env.message_type # "RESPONSE"
    /\ (Completed(yielded) /\ yielded.msg.env.message_type = "RESPONSE")
        => yielded.sends = <<>>

\* ====================================================================
\* Properties of several RequestSenders (checked under SpecInstances)
\* ====================================================================
\* C22 as stated: two RequestSenders built with the same clusterId have
\* different reply topics, and no reply is consumed by a RequestSender
\* other than the one whose request it answers.
C22_ReplyTopicsAreDistinct ==
    /\ \A s1, s2 \in Senders :
           (/\ s1 # s2
            /\ instances[s1] # NoSender
            /\ instances[s2] # NoSender
            /\ instances[s1].cluster_id = instances[s2].cluster_id)
           => instances[s1].response_topic # instances[s2].response_topic
    /\ \A c \in consumed_log : c.by = c.reply.requester

\* ====================================================================
\* Properties of the consumer start-up (checked under SpecStart)
\* ====================================================================
\* C21 as stated: once start has entered the processing loop it returns to
\* its caller, and the loop is still running when it does.
C21_StartReturnsWhileLoopRuns ==
    (start_pc = "in_start") ~> (start_pc = "returned" /\ consumer_loop = "running")

\* ====================================================================
\* Termination of calls (checked under SpecSenderFair)
\* ====================================================================
\* C30: every send_request_async call that has been entered eventually
\* returns, whether a reply arrives, none does, its reply is dropped as
\* stale or a call with the same transaction id takes it.
C30_EveryCallReturns ==
    \A c \in Calls : (call_pc[c] = "inserted") ~> (call_pc[c] = "returned")

\* C30 witness: two calls with one transaction id have both returned, the
\* displaced one with a channel error and the other with TimeoutError after
\* the last reply was dropped as stale.
C30_Witness ==
    \E c, d \in Calls :
        /\ c # d /\ call_tid[c] = call_tid[d]
        /\ call_pc[c] = "returned" /\ call_pc[d] = "returned"
        /\ outcome[c].kind = "InternalServerError"
        /\ outcome[d].kind = "TimeoutError"
        /\ reply_log = "expired"

\* ====================================================================
\* Properties of the RouteRegistry (checked under SpecRegistry)
\* ====================================================================
\* uris of the register calls made so far
RegisteredSoFar == {register_log[i].uri : i \in DOMAIN register_log}

\* the handler of the last register call for uri
LastRegistered(uri) ==
    LET last == CHOOSE i \in DOMAIN register_log :
                    /\ register_log[i].uri = uri
                    /\ \A j \in DOMAIN register_log :
                           register_log[j].uri = uri => j <= i
    IN register_log[last].handler

\* C26: after any sequence of register calls, made directly or by an
\* expansion of routes!, get_registered_uris is the set of uris registered,
\* has_handler is true for exactly those, and get_handler gives the handler
\* of the latest register call for a uri and nothing for any other uri.
C26_RegistryIsLastWriterMap ==
    /\ get_registered_uris = RegisteredSoFar
    /\ \A u \in RegistryUris :
        /\ has_handler(u) <=> u \in RegisteredSoFar
        /\ RouteRegistry_get_handler(u) =
               IF u \in RegisteredSoFar THEN Some(LastRegistered(u)) ELSE None

\* C26 witness: an expansion of routes! registered /a with h1, /a again
\* with h2 and then /b; get_handler gives h2 for /a and /x has no handler.
C26_Witness ==
    /\ macro_form = "expanded"
    /\ Len(register_log) = 3
    /\ register_log[1] = [uri |-> "/a", handler |-> "h1"]
    /\ register_log[2] = [uri |-> "/a", handler |-> "h2"]
    /\ register_log[3].uri = "/b"
    /\ RouteRegistry_get_handler("/a") = Some("h2")
    /\ ~has_handler("/x")

\* ====================================================================
\* Properties of the library functions (checked under SpecLibrary)
\* ====================================================================
\* C24: decoding the JSON encoding of a valid envelope gives back an
\* envelope equal to it in every field, for every message type, with or
\* without source id and response destination.
C24_DecodeInvertsEncode ==
    codec.out # NotDecoded => codec.out = Some(codec.in)

\* C24 witness: a RESPONSE envelope with a source id, no response
\* destination and an object as data has been encoded and decoded.
C24_Witness ==
    /\ codec.out # NotDecoded /\ codec.out # None
    /\ codec.in.message_type = "RESPONSE"
    /\ codec.in.source_id # None
    /\ codec.in.response_destination = None
    /\ codec.in.data.json = "object"
    /\ codec.wire.v.sourceId = JStr(cluster_id)

\* the wire code the error taxonomy gives each variant
WireCode ==
    [v \in KafkaErrorVariants |->
        CASE v = "InternalServerError" -> "INTERNAL_SERVER_ERROR"
          [] v = "UriNotFound" -> "URI_NOT_FOUND"
          [] v = "SerializationError" -> "VALUE_INVALID"
          [] v = "ConnectionError" -> "TIMEOUT_ERROR"
          [] v = "TimeoutError" -> "TIMEOUT_ERROR"
          [] v = "ConfigurationError" -> "INVALID_PARAMETER"]

\* C27: to_response gives the variant's wire code, a non-empty message that
\* is the error's display text, status.data null and data null.
C27_ErrorMapsToWireCode ==
    kerr.out # NoMsg =>
        /\ kerr.out.status # None
        /\ kerr.out.status.some.code = WireCode[kerr.in.variant]
        /\ kerr.out.status.some.message = kafka_error_display(kerr.in)
        /\ kerr.out.status.some.message # ""
        /\ kerr.out.status.some.data = None
        /\ kerr.out.data = None

\* C27 witness: a ConnectionError with an empty text was converted.
C27_Witness ==
    /\ kerr.out # NoMsg
    /\ kerr.in.variant = "ConnectionError" /\ kerr.in.arg = ""
    /\ kerr.out.status.some.code = "TIMEOUT_ERROR"

\* C28 as stated: a consumer built from a configuration with an empty
\* topics list, or with none, is subscribed to exactly [clusterId].
C28_EmptyTopicsDefaultToClusterId ==
    (consumer_new.subscription # NoMsg
        /\ consumer_new.config.topics \in {None, Some(<<>>)})
        => consumer_new.subscription = Some(<<consumer_new.config.cluster_id>>)

\* ====================================================================
\* Properties of the consumer loop (checked under SpecOrder)
\* ====================================================================
\* C32: handlers begin in the order the stream delivered their messages;
\* nothing is required of the order in which they complete.
C32_HandlersStartInStreamOrder ==
    \A a, b \in DOMAIN started : a < b => started[a] < started[b]

\* C32 witness: the handler of the second message completed before the
\* handler of the first, both having started in stream order.
C32_Witness ==
    /\ Len(started) >= 2 /\ started[1] = 1 /\ started[2] = 2
    /\ Len(completed) >= 2 /\ completed[1].id = 2 /\ completed[2].id = 1

\* C33 as stated: once the handle of start is dropped no handler begins,
\* and no handler invocation in flight at that moment is cancelled.
C33_AbortSparesHandlersInFlight ==
    /\ [](~loop_alive => cancelled = {})
    /\ [][~loop_alive => started' = started]_vars

\* ====================================================================
\* Further properties of the RequestSender (checked under SpecSender)
\* ====================================================================
\* C34 as stated: the cleanup a call performs when it returns removes no
\* pending entry that another call inserted, also when both calls use one
\* transaction id.
C34_CleanupRemovesOwnEntryOnly ==
    [][\A c \in Calls :
          (call_pc[c] \in {"rx_arm", "timeout_arm"} /\ call_pc'[c] = "returned")
              => \A t \in DOMAIN pending_requests :
                     pending_requests[t] # c
                         => (t \in DOMAIN pending_requests'
                             /\ pending_requests'[t] = pending_requests[t])]_vars

\* a reply for transaction id t has completed the sink of a call
Delivered(t) == \E c \in Calls : call_tid[c] = t /\ tx[c] = "sent"

\* a sink is completed at most once, and a call returns one outcome
OneCompletionOneOutcome ==
    \A c \in Calls :
        /\ tx[c] = "sent" => (tx'[c] = "sent" /\ chan'[c] = chan[c])
        /\ call_pc[c] = "returned" => (call_pc'[c] = "returned" /\ outcome'[c] = outcome[c])

\* C36 as stated: a sink is completed at most once and a call returns one
\* outcome; a reply delivered again for a transaction id whose reply has
\* completed a sink finds no entry and leaves the table and every sink as
\* they were.
C36_DuplicateChangesNothing ==
    /\ [][OneCompletionOneOutcome]_vars
    /\ [][\/ UNCHANGED <<pending_requests, tx, chan>>
          \/ \A m \in ReplyMessage :
                ~(/\ m.payload = "envelope" /\ Delivered(m.env.transaction_id)
                  /\ handle_message(m))]_vars

\* C36, amended: a sink is completed at most once and a call returns one
\* outcome; the entry of a completed sink is gone from the table, and a reply
\* delivered again finds no entry and changes nothing unless a later call
\* has inserted its own entry under the same transaction id: the duplicate
\* then completes the sink of that call.
C36_DuplicateSparesCompletedCall ==
    /\ [][OneCompletionOneOutcome]_vars
    /\ [][\A c \in Calls : tx'[c] = "sent"
            => \A t \in DOMAIN pending_requests' : pending_requests'[t] # c]_vars
    /\ [][\/ UNCHANGED <<pending_requests, tx, chan>>
          \/ \A m \in ReplyMessage :
                (/\ m.payload = "envelope" /\ Delivered(m.env.transaction_id)
                 /\ handle_message(m))
                    => /\ m.env.transaction_id \in DOMAIN pending_requests
                       /\ tx[pending_requests[m.env.transaction_id]] = "live"
                       /\ tx' = [tx EXCEPT ![pending_requests[m.env.transaction_id]] = "sent"]]_vars

\* a call has returned the reply it was sent, no entry is left under its
\* transaction id, and a reply handled after that found no entry
C36_Witness ==
    \E c \in Calls :
        /\ tx[c] = "sent" /\ call_pc[c] = "returned" /\ outcome[c].kind = "Response"
        /\ call_tid[c] \notin DOMAIN pending_requests
        /\ reply_log = "not found"

\* C37: a call whose producer send fails returns in that step, with the
\* producer's InternalServerError, whatever its channel holds; no sleep future
\* is created for it and it never waits on its receiver.
C37_PublishFailureReturnsAtOnce ==
    [][\A c \in Calls :
          (call_pc[c] = "inserted" /\ call_pc'[c] # "inserted"
           /\ service_topic' = service_topic)
              => /\ call_pc'[c] = "returned"
                 /\ outcome'[c] = [kind |-> "InternalServerError", env |-> NoMsg]
                 /\ sleep_secs'[c] = None
                 /\ timer_elapsed'[c] = FALSE]_vars

\* a call has returned the producer's error, never having started its select,
\* although a reply had been put into its channel
C37_Witness ==
    \E c \in Calls :
        /\ call_pc[c] = "returned" /\ outcome[c].kind = "InternalServerError"
        /\ sleep_secs[c] = None /\ chan[c] # NoMsg

\* C39: every entry of the pending table holds a sink that has not been
\* completed: the sender half of its channel is still in the entry, unused.
C39_NoCompletedSinkInTable ==
    \A t \in DOMAIN pending_requests : tx[pending_requests[t]] = "live"

\* a reply has completed the sink of a call that has not yet returned, its
\* entry is gone, and the entry of another call is still in the table
C39_Witness ==
    \E c, d \in Calls :
        /\ tx[c] = "sent" /\ call_pc[c] \in {"inserted", "awaiting"}
        /\ call_tid[c] \notin DOMAIN pending_requests
        /\ call_tid[d] \in DOMAIN pending_requests /\ pending_requests[call_tid[d]] = d

\* ---------------------------------------------------------------------------
\* Properties of the pending-table lock (checked under SpecLock)
\* ---------------------------------------------------------------------------

\* a step that needs nothing but the lock itself: the guard is handed to
\* the first waiter, or the holder ends its critical section
LockProgress ==
    \/ \E th \in Threads : write_granted(th)
    \/ \E c \in Calls : CallInsert(c) \/ CallRemove(c)
    \/ \E k \in ReplyTasks : ReplyResolve(k)

\* C38: the guard is held only in the insert, a remove, or the remove and
\* resolve of handle_message, never by a task that is publishing, awaiting
\* its select or returned; and whenever a task waits for the lock, the lock
\* can be handed on or released without any other event.
C38_NoDeadlockOnPendingLock ==
    /\ lock_holder # NoHolder
            => thread_pc[lock_holder] \in {"hold_insert", "hold_remove", "hold_resolve"}
    /\ \A th \in Threads :
            thread_pc[th] \in {"publishing", "select", "returned", "idle"} => lock_holder # th
    /\ lock_waiters # <<>> => ENABLED LockProgress

\* a handle_message invocation holds the guard while a call waits to insert,
\* a call waits to remove and another invocation waits to resolve
C38_Witness ==
    /\ lock_holder # NoHolder /\ lock_holder[1] = "reply"
    /\ \E c, d \in Calls, k \in ReplyTasks :
        /\ thread_pc[<<"call", c>>] = "wait_insert"
        /\ thread_pc[<<"call", d>>] = "wait_remove"
        /\ thread_pc[<<"reply", k>>] = "wait_resolve"

\* ---------------------------------------------------------------------------
\* Properties of the select of send_request_async (checked under SpecTimers)
\* ---------------------------------------------------------------------------

\* the producer send of call c returns Ok in this step
PublishCompletes(c) ==
    call_pc[c] = "inserted" /\ call_pc'[c] # "inserted" /\ service_topic' # service_topic

u64_holds(d, x) == x >= 0 /\ d = <<0, 0, 0, x>>

\* C40 as stated: the duration given to a call's sleep future is the call's
\* timeout_secs, whatever i64 it is, and a call with a zero or negative
\* timeout is never given a longer sleep than a call with a positive one.
C40_DurationIsTimeoutSecs ==
    /\ \A c \in Calls :
        (sleep_secs[c] # None /\ call_timeout[c] # None)
            => u64_holds(sleep_secs[c].some, call_timeout[c].some)
    /\ \A c, d \in Calls :
        (/\ sleep_secs[c] # None /\ sleep_secs[d] # None
         /\ call_timeout[c] # None /\ call_timeout[d] # None
         /\ call_timeout[c].some <= 0 /\ call_timeout[d].some > 0)
            => ~u64_lt(sleep_secs[d].some, sleep_secs[c].some)

====
